---- MODULE Spec2Model ----
(***************************************************************************)
(* Model of the session and prompt-execution core of ollama-acp            *)
(* (src/ollama_acp/agent.py): the session registry, prompt(), cancel(),    *)
(* and the handle_prompt task with its streaming loop.                     *)
(*                                                                         *)
(* asyncio is modelled at the granularity of its suspension points: every  *)
(* action is the code one coroutine runs between two awaits.  The backend  *)
(* (ollama_client.chat) and the sink (_conn.session_update) are external;  *)
(* each await on them resumes with one of the outcomes the library can     *)
(* produce (a value, an exception), or with CancelledError once            *)
(* Task.cancel() was called on the task.  Because the awaited calls are    *)
(* opaque (they may take any number of event-loop turns to return or to    *)
(* unwind), the steps of different tasks interleave freely.  The sink is   *)
(* taken to be reliable: session_update returns and does not raise.        *)
(***************************************************************************)
EXTENDS Integers, Sequences, FiniteSets, TLC

\* ------------------------------------------------------------------ bounds
MaxSessions == 2    \* session ids the client may use
MaxPrompts  == 3    \* prompt() calls in one behaviour
MaxChunks   == 2    \* non-empty chunks one backend stream yields before it ends or fails
MaxBlocks   == 3    \* blocks of one prompt, where the prompt is drawn from all block sequences

SessionIds == 1..MaxSessions
Runs       == 1..MaxPrompts
None       == 0     \* Python's None for pending_prompt

\* ---------------------------------------------------------- prompt blocks
\* A block is an object (attributes) or a dict (keys).  has_text says whether
\* the text attribute or key is present; data is the image payload ("" when
\* absent).
Space == " "
Block(form, type, has_text, text, data) ==
    [form |-> form, type |-> type, has_text |-> has_text, text |-> text, data |-> data]

\* base64.b64decode on the payloads the model uses: "ok" decodes to the bytes
\* "img", "bad" raises binascii.Error.
B64Valid(data) == data = "ok"
b64decode(data) == IF data = "ok" THEN "img" ELSE "?"

\* str.strip(): whitespace removed at both ends only.
RECURSIVE lstrip(_)
lstrip(s) == IF s # <<>> /\ Head(s) = Space THEN lstrip(Tail(s)) ELSE s
RECURSIVE rstrip(_)
rstrip(s) ==
    IF s # <<>> /\ s[Len(s)] = Space THEN rstrip(SubSeq(s, 1, Len(s) - 1)) ELSE s
strip(s) == rstrip(lstrip(s))

\* The text one block contributes (agent.py 227-231).
BlockText(b) ==
    IF b.form = "obj" /\ b.has_text THEN b.text
    ELSE IF b.form = "dict" /\ b.type = "text"
         THEN (IF b.has_text THEN b.text ELSE <<>>)
         ELSE <<>>

\* The images one block contributes (agent.py 232-248): the dict branch is
\* reached only when the block has no text attribute, the object branch
\* whenever the object's type is "image".
BlockImages(b) ==
    LET dictImg == b.form = "dict" /\ b.type = "image"
        objImg  == b.form = "obj" /\ b.type = "image"
    IN  IF (dictImg \/ objImg) /\ b.data # "" /\ B64Valid(b.data)
        THEN <<b64decode(b.data)>>
        ELSE <<>>

RECURSIVE ConcatText(_)
ConcatText(blocks) ==
    IF blocks = <<>> THEN <<>>
    ELSE BlockText(Head(blocks)) \o ConcatText(Tail(blocks))

RECURSIVE ConcatImages(_)
ConcatImages(blocks) ==
    IF blocks = <<>> THEN <<>>
    ELSE BlockImages(Head(blocks)) \o ConcatImages(Tail(blocks))

_extract_content_from_prompt(blocks) ==
    [text |-> strip(ConcatText(blocks)), images |-> ConcatImages(blocks)]

\* The prompts the client submits in this model.
EmptyPrompt  == <<Block("obj", "text", TRUE, <<Space>>, ""),
                  Block("dict", "image", FALSE, <<>>, "bad")>>
HelloPrompt  == <<Block("dict", "text", TRUE, <<Space, "h">>, ""),
                  Block("obj", "image", FALSE, <<>>, "ok")>>
PromptInputs == {EmptyPrompt, HelloPrompt}

\* The backend stream: its n-th non-empty increment is fixed ("x", "y", "x",
\* ...); between increments it may yield any number of chunks whose content is
\* '' (or that carry no 'message'), and it may end or raise at any point.
Increment(n) == IF n % 2 = 1 THEN <<"x">> ELSE <<"y">>
ChunkContents(n) == {<<>>, Increment(n)}

\* ------------------------------------------------------------------- state
VARIABLES
    _sessions,             \* ids in the registry (keys of self._sessions)
    pending_prompt,        \* session id -> Run (task) referenced, or None
    conversation_history,  \* session id -> sequence of messages
    task,                  \* Run -> the handle_prompt task created by the k-th prompt()
    call,                  \* Run -> the k-th prompt() call
    sink,                  \* session id -> session_update calls issued under that id
    nprompts               \* number of prompt() calls made so far

vars == <<_sessions, pending_prompt, conversation_history, task, call, sink, nprompts>>

\* Task positions: "none" (not created), "created" (scheduled, first step not
\* run), the await it is suspended at ("chat", "next", "update", "notice"),
\* and the ends "done" (returned), "cancelled", "raised".
Finished == {"done", "cancelled", "raised"}
TaskDone(k) == task[k].pc \in Finished
TaskLive(k) == task[k].pc \notin Finished \cup {"none"}

\* full_response and chunks are locals of _stream_ollama_response: they exist
\* (are not <<>> and 0) only while the task is inside it.  started (the first
\* step ran) and failed (the backend raised) record what happened to the task.
NoTask == [sid |-> None, prompt |-> <<>>, pc |-> "none", must_cancel |-> FALSE,
           full_response |-> <<>>, chunks |-> 0, started |-> FALSE, failed |-> FALSE]
Ended(t, pc) == [t EXCEPT !.pc = pc, !.must_cancel = FALSE,
                          !.full_response = <<>>, !.chunks = 0]

\* A call: its position, its result, and overtaken: a later prompt() was
\* submitted on its session before it returned.
NoCall == [pc |-> "none", stop_reason |-> "none", overtaken |-> FALSE]

Init ==
    /\ _sessions = {}
    /\ pending_prompt = [s \in SessionIds |-> None]
    /\ conversation_history = [s \in SessionIds |-> <<>>]
    /\ task = [k \in Runs |-> NoTask]
    /\ call = [k \in Runs |-> NoCall]
    /\ sink = [s \in SessionIds |-> <<>>]
    /\ nprompts = 0

\* Messages; run is the Run that appended the message (bookkeeping only).
UserMessage(k, content) ==
    [role |-> "user", content |-> content.text, images |-> content.images, run |-> k]
AssistantMessage(k, text) ==
    [role |-> "assistant", content |-> text, images |-> <<>>, run |-> k]
\* session_update calls: a streamed increment, or the error notice.
TextUpdate(k, text) == [kind |-> "text", content |-> text, run |-> k]
ErrorNotice(k)      == [kind |-> "error", content |-> <<>>, run |-> k]

\* Session ids are opaque tokens the code only uses as dict keys, so the ids
\* are brought into use in increasing order (one representative of each class
\* of behaviours that differ by a renaming of the ids).
Usable(s) == s <= Cardinality(_sessions) + 1

\* ----------------------------------------------------------------- actions
\* Faulty variant: the new AgentSession stored under an id already in use.
new_session_overwrites ==
    \E s \in _sessions :
        /\ pending_prompt' = [pending_prompt EXCEPT ![s] = None]
        /\ conversation_history' = [conversation_history EXCEPT ![s] = <<>>]
        /\ UNCHANGED <<_sessions, task, call, sink, nprompts>>
\* new_session: a fresh token_hex(16) id, an empty AgentSession.
new_session ==
    \E s \in SessionIds \ _sessions :
        /\ Usable(s)
        /\ _sessions' = _sessions \cup {s}
        /\ pending_prompt' = [pending_prompt EXCEPT ![s] = None]
        /\ conversation_history' = [conversation_history EXCEPT ![s] = <<>>]
        /\ UNCHANGED <<task, call, sink, nprompts>>

\* Task.cancel(): no effect on a finished task, otherwise CancelledError is
\* thrown into the task when it next resumes.
CancelTask(tasks, k) ==
    IF tasks[k].pc \in Finished THEN tasks
    ELSE [tasks EXCEPT ![k].must_cancel = TRUE]

\* Faulty variant: prompt() not cancelling the task the session references.
SupersededNone(s) == {}
\* The task prompt() calls Task.cancel() on before it creates its own.
Superseded(s) ==
    IF s \in _sessions /\ pending_prompt[s] # None THEN {pending_prompt[s]} ELSE {}

\* Faulty variant: prompt() creating the missing session without inserting it.
RegisteredNone(s) == {}
\* What prompt() leaves in the registry under the id it was given: the session
\* it found, or the AgentSession() it created and inserted.
Registered(s) == {s}

\* prompt(), up to its await: look the session up (creating it when unknown),
\* cancel the referenced task if any, create the new task and reference it.
prompt(s, p) ==
    /\ nprompts < MaxPrompts
    /\ Usable(s)
    /\ LET k == nprompts + 1
       IN  /\ _sessions' = _sessions \cup Registered(s)
           /\ task' = [j \in Runs |->
                          IF j = k
                          THEN [NoTask EXCEPT !.sid = s, !.prompt = p, !.pc = "created"]
                          ELSE IF j \in Superseded(s) THEN CancelTask(task, j)[j]
                          ELSE task[j]]
           /\ pending_prompt' = [pending_prompt EXCEPT ![s] = k]
           /\ call' = [j \in Runs |->
                          IF j = k THEN [NoCall EXCEPT !.pc = "awaiting"]
                          ELSE IF task[j].sid = s /\ call[j].pc = "awaiting"
                               THEN [call[j] EXCEPT !.overtaken = TRUE]
                               ELSE call[j]]
           /\ nprompts' = k
    /\ UNCHANGED <<conversation_history, sink>>

\* What prompt() returns (or "error": raises) for the way its task ended.
StopReason(pc) ==
    CASE pc = "cancelled" -> "cancelled"
      [] pc = "raised"    -> "error"
      [] OTHER            -> "end_turn"

\* Faulty variant: prompt() without its finally clause.
AfterFinallyKeeps(k, s) == pending_prompt[s]
\* What the finally clause of the k-th prompt() leaves in session.pending_prompt.
AfterFinally(k, s) == None

\* prompt(), from the await on: resumes when its task has ended.
prompt_return(k) ==
    /\ call[k].pc = "awaiting"
    /\ TaskDone(k)
    /\ call' = [call EXCEPT ![k].pc = "returned",
                             ![k].stop_reason = StopReason(task[k].pc)]
    /\ pending_prompt' = [pending_prompt EXCEPT ![task[k].sid] = AfterFinally(k, task[k].sid)]
    /\ UNCHANGED <<_sessions, conversation_history, task, sink, nprompts>>

\* Faulty variant: cancel() cancelling the referenced task of every session.
CancelTargetsAll(s) == {pending_prompt[t] : t \in _sessions} \ {None}
\* The tasks cancel(s) calls Task.cancel() on.
CancelTargets(s) ==
    IF s \in _sessions /\ pending_prompt[s] # None THEN {pending_prompt[s]} ELSE {}

\* Faulty variant: cancel() creating the session it does not find, as prompt() does.
CancelCreatesMissing(s) == {s}
\* What cancel(s) adds to the registry: it looks up with .get and inserts nothing.
CancelCreates(s) == {}

cancel(s) ==
    /\ task' = [k \in Runs |-> IF k \in CancelTargets(s) THEN CancelTask(task, k)[k]
                               ELSE task[k]]
    /\ _sessions' = _sessions \cup CancelCreates(s)
    /\ UNCHANGED <<pending_prompt, conversation_history, call, sink, nprompts>>

\* Faulty variant: the partial text appended when CancelledError passes through.
AppendedOnCancel(k, outcome) ==
    IF outcome \in {"completed", "cancelled"} /\ task[k].pc \in {"next", "update"}
    THEN <<AssistantMessage(k, task[k].full_response)>>
    ELSE <<>>
\* Faulty variant: the partial text appended by the except clause.
AppendedOnFailure(k, outcome) ==
    IF outcome \in {"completed", "failed"}
    THEN <<AssistantMessage(k, task[k].full_response)>>
    ELSE <<>>
\* What handle_prompt appends to the history once _stream_ollama_response is
\* over: the assistant message when it returned, nothing when it raised
\* (except Exception) or when CancelledError passes through (not caught).
Appended(k, outcome) ==
    IF outcome = "completed" THEN <<AssistantMessage(k, task[k].full_response)>>
    ELSE <<>>

\* A task resumed after Task.cancel(): CancelledError is raised at its await
\* (or before its first line); no handler of handle_prompt catches it.
task_cancelled(k) ==
    /\ TaskLive(k)
    /\ task[k].must_cancel
    /\ task' = [task EXCEPT ![k] = Ended(@, "cancelled")]
    /\ conversation_history' =
          [conversation_history EXCEPT ![task[k].sid] = @ \o Appended(k, "cancelled")]
    /\ UNCHANGED <<_sessions, pending_prompt, call, sink, nprompts>>

Resumes(k, pc) == task[k].pc = pc /\ ~task[k].must_cancel

\* Faulty variant: "if not prompt_text and images": the second "not" missing.
NothingToDoNotMissing(content) == content.text = <<>> /\ content.images # <<>>
\* Whether handle_prompt returns without doing anything.
NothingToDo(content) == content.text = <<>> /\ content.images = <<>>

\* handle_prompt, first step: extract; return if empty; else append the user
\* message and call the backend (suspending in ollama_client.chat).
handle_prompt_start(k) ==
    /\ Resumes(k, "created")
    /\ LET s == task[k].sid
           content == _extract_content_from_prompt(task[k].prompt)
       IN  IF NothingToDo(content)
           THEN /\ task' = [task EXCEPT ![k] = Ended([@ EXCEPT !.started = TRUE], "done")]
                /\ UNCHANGED conversation_history
           ELSE /\ conversation_history' =
                     [conversation_history EXCEPT ![s] = Append(@, UserMessage(k, content))]
                /\ task' = [task EXCEPT ![k].pc = "chat", ![k].started = TRUE]
    /\ UNCHANGED <<_sessions, pending_prompt, call, sink, nprompts>>

\* ollama_client.chat returned the stream; the loop awaits the first chunk.
chat_opened(k) ==
    /\ Resumes(k, "chat")
    /\ task' = [task EXCEPT ![k].pc = "next"]
    /\ UNCHANGED <<_sessions, pending_prompt, conversation_history, call, sink, nprompts>>

\* The notices the except clause of handle_prompt issues for one failure.
Notices(k) == <<ErrorNotice(k)>>

\* The backend raises, opening the stream or between chunks:
\* _stream_ollama_response logs and re-raises, handle_prompt's except clause
\* issues the error notice and awaits its delivery.
backend_failed(k) ==
    /\ Resumes(k, "chat") \/ Resumes(k, "next")
    /\ task' = [task EXCEPT ![k].pc = "notice", ![k].failed = TRUE,
                            ![k].full_response = <<>>, ![k].chunks = 0]
    /\ sink' = [sink EXCEPT ![task[k].sid] = @ \o Notices(k)]
    /\ conversation_history' =
          [conversation_history EXCEPT ![task[k].sid] = @ \o Appended(k, "failed")]
    /\ UNCHANGED <<_sessions, pending_prompt, call, nprompts>>

\* Faulty variant: full_response = content + full_response
AccumulatePrepend(full_response, content) == content \o full_response
\* Faulty variant: full_response = content
AccumulateOverwrite(full_response, content) == content
\* full_response += content
Accumulate(full_response, content) == full_response \o content

\* One chunk arrives: accumulate and deliver it when its content is not empty.
stream_chunk(k, c) ==
    /\ Resumes(k, "next")
    /\ task[k].chunks < MaxChunks
    /\ c \in ChunkContents(task[k].chunks + 1)
    /\ IF c # <<>>
       THEN /\ task' = [task EXCEPT ![k].full_response = Accumulate(@, c),
                                    ![k].chunks = @ + 1, ![k].pc = "update"]
            /\ sink' = [sink EXCEPT ![task[k].sid] = Append(@, TextUpdate(k, c))]
       ELSE UNCHANGED <<task, sink>>
    /\ UNCHANGED <<_sessions, pending_prompt, conversation_history, call, nprompts>>

\* session_update of an increment returned; the loop awaits the next chunk.
update_delivered(k) ==
    /\ Resumes(k, "update")
    /\ task' = [task EXCEPT ![k].pc = "next"]
    /\ UNCHANGED <<_sessions, pending_prompt, conversation_history, call, sink, nprompts>>

\* The stream ends: _stream_ollama_response returns the accumulated text,
\* handle_prompt appends the assistant message and returns.
stream_end(k) ==
    /\ Resumes(k, "next")
    /\ conversation_history' =
          [conversation_history EXCEPT ![task[k].sid] = @ \o Appended(k, "completed")]
    /\ task' = [task EXCEPT ![k] = Ended(@, "done")]
    /\ UNCHANGED <<_sessions, pending_prompt, call, sink, nprompts>>

\* How the task ends once the error notice was delivered: handle_prompt's
\* except clause does not re-raise, so the task returns normally.
AfterNotice == "done"

notice_delivered(k) ==
    /\ Resumes(k, "notice")
    /\ task' = [task EXCEPT ![k] = Ended(@, AfterNotice)]
    /\ UNCHANGED <<_sessions, pending_prompt, conversation_history, call, sink, nprompts>>

Next ==
    \/ new_session
    \/ \E s \in SessionIds, p \in PromptInputs : prompt(s, p)
    \/ \E k \in Runs : prompt_return(k)
    \/ \E s \in SessionIds : cancel(s)
    \/ \E k \in Runs : task_cancelled(k)
    \/ \E k \in Runs : handle_prompt_start(k)
    \/ \E k \in Runs : chat_opened(k)
    \/ \E k \in Runs : backend_failed(k)
    \/ \E k \in Runs, c \in {<<>>, <<"x">>, <<"y">>} : stream_chunk(k, c)
    \/ \E k \in Runs : update_delivered(k)
    \/ \E k \in Runs : stream_end(k)
    \/ \E k \in Runs : notice_delivered(k)

Spec == Init /\ [][Next]_vars

\* ------------------------------------------------- one turn, any prompt
\* The blocks a client may send: objects and dicts; text blocks (whitespace,
\* a letter, a letter followed by whitespace, a dict without its text key);
\* image blocks whose data is base64 text ("ok"), text that is not base64
\* ("bad"), bytes that are already decoded ("img": base64.b64decode raises
\* on them too) or missing; blocks of another type.
ExtractBlocks ==
    { Block("obj", "text", TRUE, <<Space>>, ""),
      Block("obj", "text", TRUE, <<"h">>, ""),
      Block("dict", "text", TRUE, <<"a", Space>>, ""),
      Block("dict", "text", FALSE, <<>>, ""),
      Block("obj", "image", FALSE, <<>>, "ok"),
      Block("dict", "image", FALSE, <<>>, "ok"),
      Block("dict", "image", FALSE, <<>>, "bad"),
      Block("obj", "image", FALSE, <<>>, "img"),
      Block("dict", "image", FALSE, <<>>, ""),
      Block("obj", "other", FALSE, <<>>, "ok"),
      Block("dict", "other", TRUE, <<"h">>, "") }
ExtractInputs == UNION {[1..n -> ExtractBlocks] : n \in 1..MaxBlocks}

\* The state prompt() leaves when it is called on a new agent with any
\* prompt: the session created, the task created and referenced, the call
\* awaiting it.
ExtractInit ==
    \E p \in ExtractInputs :
        /\ _sessions = {1}
        /\ pending_prompt = [s \in SessionIds |-> IF s = 1 THEN 1 ELSE None]
        /\ conversation_history = [s \in SessionIds |-> <<>>]
        /\ task = [k \in Runs |->
                      IF k = 1 THEN [NoTask EXCEPT !.sid = 1, !.prompt = p, !.pc = "created"]
                      ELSE NoTask]
        /\ call = [k \in Runs |-> IF k = 1 THEN [NoCall EXCEPT !.pc = "awaiting"] ELSE NoCall]
        /\ sink = [s \in SessionIds |-> <<>>]
        /\ nprompts = 1

\* The turn that follows: the task's steps, cancel(), the return of prompt().
ExtractNext ==
    \/ cancel(1)
    \/ \E k \in Runs : prompt_return(k)
    \/ \E k \in Runs : task_cancelled(k)
    \/ \E k \in Runs : handle_prompt_start(k)
    \/ \E k \in Runs : chat_opened(k)
    \/ \E k \in Runs : backend_failed(k)
    \/ \E k \in Runs, c \in {<<>>, <<"x">>, <<"y">>} : stream_chunk(k, c)
    \/ \E k \in Runs : update_delivered(k)
    \/ \E k \in Runs : stream_end(k)
    \/ \E k \in Runs : notice_delivered(k)
ExtractSpec == ExtractInit /\ [][ExtractNext]_vars

\* ---------------------------------------------------------------- fairness
\* The event loop resumes every task that is ready: a task that was created,
\* was cancelled, or whose awaited call (backend, sink) has an outcome.  The
\* backend and the sink are taken to answer every call (with a value or an
\* exception) and every stream to be finite, so a task that has not ended is
\* eventually resumed; so is a prompt() whose task has ended.
RunStep(k) ==
    \/ task_cancelled(k) \/ handle_prompt_start(k) \/ chat_opened(k)
    \/ backend_failed(k) \/ update_delivered(k) \/ stream_end(k)
    \/ notice_delivered(k)
    \/ \E c \in {<<"x">>, <<"y">>} : stream_chunk(k, c)
Fairness == \A k \in Runs : WF_vars(RunStep(k)) /\ WF_vars(prompt_return(k))

\* The client working on one session.  Sessions do not share state, so whether
\* a prompt() returns depends on the steps of its own session only.
OneSession == _sessions' \subseteq {1}
FairNext ==
    \/ new_session /\ OneSession
    \/ \E p \in PromptInputs : prompt(1, p)
    \/ \E k \in Runs : prompt_return(k)
    \/ cancel(1)
    \/ \E k \in Runs : task_cancelled(k)
    \/ \E k \in Runs : handle_prompt_start(k)
    \/ \E k \in Runs : chat_opened(k)
    \/ \E k \in Runs : backend_failed(k)
    \/ \E k \in Runs, c \in {<<>>, <<"x">>, <<"y">>} : stream_chunk(k, c)
    \/ \E k \in Runs : update_delivered(k)
    \/ \E k \in Runs : stream_end(k)
    \/ \E k \in Runs : notice_delivered(k)
FairSpec == Init /\ [][FairNext]_vars /\ Fairness

\* ------------------------------------------------------------- properties
\* What Run k itself appended to its session's history / issued to the sink.
Own(k)     == SelectSeq(conversation_history[task[k].sid], LAMBDA m : m.run = k)
OwnSink(k) == SelectSeq(sink[task[k].sid], LAMBDA u : u.run = k)
Content(k) == _extract_content_from_prompt(task[k].prompt)
Submitted(k) == task[k].pc # "none"
Empty(k)     == Submitted(k) /\ Content(k).text = <<>> /\ Content(k).images = <<>>
NonEmpty(k)  == Submitted(k) /\ ~Empty(k)
Returned(k)  == call[k].pc = "returned"
\* Active: the Run's body is running (past its first step), it has not ended
\* and has not been signalled for cancellation.
Active(k) == task[k].pc \in {"chat", "next", "update", "notice"} /\ ~task[k].must_cancel
RunsOf(s) == {k \in Runs : task[k].sid = s}

\* C1 (single-flight): at every instant at most one Run of a session is
\* active (started, not terminated, not cancelled).
SingleFlight ==
    \A s \in SessionIds : Cardinality({k \in RunsOf(s) : Active(k)}) <= 1

\* C2: a prompt() whose Run saw the backend raise never returns the normal
\* outcome end_turn.
BackendFailureReported ==
    \A k \in Runs : (Returned(k) /\ task[k].failed) => call[k].stop_reason # "end_turn"

\* C3 (supersede outcomes): a Run that is in flight when a later prompt is
\* submitted to its session is cancelled by that submission, so that its
\* prompt() call returns 'cancelled': no Run with a later prompt on its session
\* is in flight without having been signalled, and a signalled Run's call
\* returns 'cancelled'.
SupersedeOutcomes ==
    /\ \A a \in Runs, b \in Runs :
          (a < b /\ Submitted(b) /\ task[a].sid = task[b].sid /\ TaskLive(a))
             => task[a].must_cancel
    /\ \A a \in Runs :
          (Returned(a) /\ task[a].pc = "cancelled") => call[a].stop_reason = "cancelled"

\* C4 (direct cancel reaches the active Run): in every reachable state, every
\* active Run of a session is among the tasks cancel() of that session cancels.
CancelReachesActiveRun ==
    \A s \in SessionIds : \A k \in RunsOf(s) :
        (TaskLive(k) /\ ~task[k].must_cancel) => k \in CancelTargets(s)

\* C5 (idempotent cancel): cancel(s) on a session with no active Run (none at
\* all, all finished, or already signalled), or on an unknown id, changes
\* neither the registry, any history, the sink, any Run's end nor any call's
\* outcome.
NoActiveRun(s) == \A k \in RunsOf(s) : ~(TaskLive(k) /\ ~task[k].must_cancel)
IdempotentCancel ==
    [][\A s \in SessionIds :
          (NoActiveRun(s) /\ cancel(s)) =>
              /\ UNCHANGED <<_sessions, pending_prompt, conversation_history, sink, call>>
              /\ \A k \in Runs : task'[k].pc = task[k].pc
                                 /\ task'[k].must_cancel = task[k].must_cancel]_vars

\* A state in which cancel() is a no-op in each of the three ways: an id the
\* registry does not know, a session whose Run has finished and returned, and
\* a Run already signalled that has not unwound yet.  That Run is the one the
\* session references, so it was signalled by cancel() itself (a superseding
\* prompt() re-points the reference): cancel() has acted on this session.
IdempotentCancelWitness ==
    /\ \E s \in SessionIds : s \notin _sessions /\ NoActiveRun(s)
    /\ \E s \in _sessions :
          /\ NoActiveRun(s)
          /\ \E k \in RunsOf(s) : Returned(k) /\ call[k].stop_reason = "end_turn"
          /\ \E k \in RunsOf(s) : TaskLive(k) /\ task[k].must_cancel
                                  /\ k \in CancelTargets(s)

\* C6 as stated: an empty prompt appends nothing, never reaches the backend,
\* delivers nothing, and its prompt() returns 'end_turn'.
EmptyPromptEndsTurn ==
    \A k \in Runs : Empty(k) =>
        /\ Own(k) = <<>> /\ OwnSink(k) = <<>>
        /\ task[k].pc \in {"created", "done", "cancelled"}
        /\ Returned(k) => call[k].stop_reason = "end_turn"

\* C6 (amended): an empty prompt appends nothing, never reaches the backend
\* and delivers nothing; its prompt() returns 'end_turn' when its Run ran, and
\* 'cancelled' only when the Run was cancelled before its first step.
EmptyPromptNoOp ==
    \A k \in Runs : Empty(k) =>
        /\ Own(k) = <<>> /\ OwnSink(k) = <<>>
        /\ task[k].pc \in {"created", "done", "cancelled"}
        /\ Returned(k) =>
              \/ task[k].started /\ call[k].stop_reason = "end_turn"
              \/ ~task[k].started /\ task[k].pc = "cancelled"
                    /\ call[k].stop_reason = "cancelled"

\* An empty prompt that returned end_turn on a session whose history an earlier
\* prompt had filled, and another that was cancelled before it ran.
EmptyPromptNoOpWitness ==
    /\ \E k \in Runs : Empty(k) /\ Returned(k) /\ call[k].stop_reason = "end_turn"
                       /\ Len(conversation_history[task[k].sid]) = 2
    /\ \E k \in Runs : Empty(k) /\ Returned(k) /\ call[k].stop_reason = "cancelled"

\* The increments streamed for Run k, concatenated in the order of delivery.
RECURSIVE Concat(_)
Concat(updates) ==
    IF updates = <<>> THEN <<>> ELSE Head(updates).content \o Concat(Tail(updates))
Streamed(k) == Concat(SelectSeq(OwnSink(k), LAMBDA u : u.kind = "text"))

\* C7 (completed prompt): a non-empty prompt whose Run finished streaming
\* without cancellation or backend failure has appended exactly its user
\* message and then one assistant message holding the concatenation of the
\* streamed increments, and its prompt() returns 'end_turn'.
CompletedPromptHistory ==
    \A k \in Runs : (NonEmpty(k) /\ task[k].pc = "done" /\ ~task[k].failed) =>
        /\ Own(k) = <<UserMessage(k, Content(k)), AssistantMessage(k, Streamed(k))>>
        /\ Returned(k) => call[k].stop_reason = "end_turn"

CompletedPromptWitness ==
    \E k \in Runs :
        /\ NonEmpty(k) /\ task[k].pc = "done" /\ ~task[k].failed /\ Returned(k)
        /\ Streamed(k) = <<"x", "y">>
        /\ Len(Own(k)) = 2

\* C8 as stated: every non-empty prompt whose prompt() returned 'cancelled' has
\* appended exactly one message, its user message.
CancelledKeepsUserMessage ==
    \A k \in Runs :
        (NonEmpty(k) /\ Returned(k) /\ call[k].stop_reason = "cancelled")
            => Own(k) = <<UserMessage(k, Content(k))>>

\* C8 (amended): a non-empty prompt whose prompt() returned 'cancelled' has
\* appended exactly its user message when its Run had taken its first step,
\* and nothing when it was cancelled before that step; never an assistant
\* message.
CancelledPromptHistory ==
    \A k \in Runs :
        (NonEmpty(k) /\ Returned(k) /\ call[k].stop_reason = "cancelled")
            => Own(k) = IF task[k].started THEN <<UserMessage(k, Content(k))>> ELSE <<>>

\* A prompt cancelled while streaming (one increment delivered), and one
\* cancelled before its Run's first step.
CancelledPromptWitness ==
    /\ \E k \in Runs : /\ NonEmpty(k) /\ Returned(k) /\ call[k].stop_reason = "cancelled"
                       /\ task[k].started /\ Streamed(k) = <<"x">>
    /\ \E k \in Runs : /\ NonEmpty(k) /\ Returned(k) /\ call[k].stop_reason = "cancelled"
                       /\ ~task[k].started

\* The scenario of C9 on session s: b is the last prompt submitted to s, a the
\* one before it; b was submitted before a's prompt() returned; every earlier
\* prompt() of s had returned before the next was submitted; b's Run completed.
Superseding(s, a, b) ==
    /\ a \in RunsOf(s) /\ b \in RunsOf(s) /\ a < b
    /\ \A j \in RunsOf(s) : j <= b /\ (j < a \/ j = a \/ j = b)
    /\ call[a].overtaken
    /\ \A j \in RunsOf(s) : j < a => ~call[j].overtaken
    /\ NonEmpty(b) /\ task[b].pc = "done" /\ ~task[b].failed
\* The history that was there when a was submitted.
Before(s, a) == SelectSeq(conversation_history[s], LAMBDA m : m.run < a)
Pair(b) == <<UserMessage(b, Content(b)), AssistantMessage(b, Streamed(b))>>

\* C9 as stated: in that scenario the history is the pre-existing history
\* followed by exactly b's user and assistant message; nothing of a is kept.
SupersededLeavesNoTrace ==
    \A s \in SessionIds : \A a \in Runs, b \in Runs :
        Superseding(s, a, b) => conversation_history[s] = Before(s, a) \o Pair(b)

\* What a's Run had appended when b was submitted, from where it stopped.
Kept(a) ==
    IF Empty(a) \/ ~task[a].started THEN <<>>
    ELSE IF task[a].pc = "done" /\ ~task[a].failed
         THEN <<UserMessage(a, Content(a)), AssistantMessage(a, Streamed(a))>>
         ELSE <<UserMessage(a, Content(a))>>

\* C9 (amended): in that scenario the history is the pre-existing history,
\* then what a's Run had appended before b was submitted (nothing if it had
\* not started, its user message if it had, and its assistant message too if
\* it had already completed), then exactly b's user and assistant message.
SupersededKeepsUserMessage ==
    \A s \in SessionIds : \A a \in Runs, b \in Runs :
        Superseding(s, a, b) =>
            conversation_history[s] = Before(s, a) \o Kept(a) \o Pair(b)

\* Three prompts on one session: the first completed and returned, the second
\* started and was superseded by the third, which completed.
SupersededWitness ==
    \E s \in SessionIds : \E a \in Runs, b \in Runs :
        /\ Superseding(s, a, b)
        /\ Len(Before(s, a)) = 2
        /\ NonEmpty(a) /\ task[a].pc = "cancelled" /\ task[a].started
        /\ Returned(a) /\ Returned(b)

\* C10 (failure leaves history clean): a Run that saw the backend raise has
\* issued exactly one error notice and has appended its user message only.
NoticesOf(k) == SelectSeq(OwnSink(k), LAMBDA u : u.kind = "error")
FailureLeavesHistoryClean ==
    \A k \in Runs : task[k].failed =>
        /\ Len(NoticesOf(k)) = 1
        /\ Own(k) = <<UserMessage(k, Content(k))>>

\* A Run that failed after an increment was delivered, and one that failed
\* before any; both ended and their prompt() returned.
FailureWitness ==
    /\ \E k \in Runs : task[k].failed /\ Returned(k) /\ Streamed(k) = <<"x">>
    /\ \E k \in Runs : task[k].failed /\ Returned(k) /\ Streamed(k) = <<>>

\* C11 (unknown session is created on demand): the session a Run works on is
\* always in the registry (handle_prompt's lookup never fails), and prompt()
\* with an id the registry does not know inserts that id with an empty history
\* and leaves exactly the state a prompt() on a freshly opened session leaves:
\* its own task created and referenced, its call awaiting, no other task
\* cancelled, no other call overtaken, nothing appended or delivered.
UnknownSessionCreated ==
    /\ [](\A k \in Runs : Submitted(k) => task[k].sid \in _sessions)
    /\ [][\A s \in SessionIds \ _sessions : \A p \in PromptInputs :
            prompt(s, p) =>
               LET k == nprompts + 1
               IN  /\ _sessions' = _sessions \cup {s}
                   /\ conversation_history' = [conversation_history EXCEPT ![s] = <<>>]
                   /\ pending_prompt' = [pending_prompt EXCEPT ![s] = k]
                   /\ task' = [task EXCEPT ![k] =
                                  [NoTask EXCEPT !.sid = s, !.prompt = p, !.pc = "created"]]
                   /\ call' = [call EXCEPT ![k] = [NoCall EXCEPT !.pc = "awaiting"]]
                   /\ sink' = sink]_vars

\* The first prompt() of the behaviour, on an id no new_session had opened (the
\* registry holds that id only), has run to completion: user and assistant
\* message in the history, 'end_turn' returned; the other id is still unknown.
UnknownSessionWitness ==
    /\ _sessions = {1} /\ nprompts = 1
    /\ task[1].sid = 1 /\ NonEmpty(1) /\ task[1].pc = "done" /\ ~task[1].failed
    /\ Returned(1) /\ call[1].stop_reason = "end_turn"
    /\ Len(conversation_history[1]) = 2

\* C12 (registry only grows): no step removes an id from the registry, and
\* every new_session step adds exactly one id that was not in the registry,
\* with an empty history, no Run referenced and no Run of that id, and leaves
\* every other session's history and reference, every task and call, and the
\* sink unchanged.
RegistryOnlyGrows ==
    [][/\ _sessions \subseteq _sessions'
       /\ new_session =>
             \E s \in SessionIds \ _sessions :
                 /\ _sessions' = _sessions \cup {s}
                 /\ conversation_history'[s] = <<>>
                 /\ pending_prompt'[s] = None
                 /\ \A k \in Runs : task'[k].sid # s
                 /\ \A t \in _sessions :
                        /\ conversation_history'[t] = conversation_history[t]
                        /\ pending_prompt'[t] = pending_prompt[t]
                 /\ UNCHANGED <<task, call, sink>>]_vars

\* A session opened by new_session (registered, without any Run) next to a
\* session that holds a completed turn and a Run that is streaming.
RegistryWitness ==
    /\ _sessions = {1, 2}
    /\ RunsOf(2) = {} /\ conversation_history[2] = <<>> /\ pending_prompt[2] = None
    /\ Len(conversation_history[1]) = 3
    /\ \E k \in RunsOf(1) : Active(k) /\ pending_prompt[1] = k /\ Streamed(k) = <<"x">>

\* C13 (synchronous handoff): a prompt() on a session creates its task, and
\* re-points the session's reference, only once every earlier Run of that
\* session has fully unwound: whenever a later Run of a session exists, no
\* earlier Run of the session is still unfinished.
SynchronousHandoff ==
    \A a \in Runs, b \in Runs :
        (a < b /\ Submitted(b) /\ task[a].sid = task[b].sid) => ~TaskLive(a)

\* C14 (ordered delivery): the text deliveries a Run has issued are, in order
\* and each once, the non-empty increments its backend stream has yielded so
\* far; and while the Run is in the streaming loop its accumulator is the
\* concatenation of the increments whose delivery has been issued.
TextDeliveries(k) == SelectSeq(OwnSink(k), LAMBDA u : u.kind = "text")
OrderedDelivery ==
    \A k \in Runs : Submitted(k) =>
        /\ \A i \in 1..Len(TextDeliveries(k)) :
               TextDeliveries(k)[i].content = Increment(i)
        /\ task[k].pc \in {"next", "update"} =>
               /\ Len(TextDeliveries(k)) = task[k].chunks
               /\ task[k].full_response = Concat(TextDeliveries(k))

\* A Run whose stream has yielded both increments: the delivery of the second
\* has been issued and has not returned yet.
OrderedDeliveryWitness ==
    \E k \in Runs :
        /\ Submitted(k)
        /\ task[k].pc = "update" /\ task[k].chunks = 2
        /\ task[k].full_response = <<"x", "y">>
        /\ Len(TextDeliveries(k)) = 2

\* C15 (silence after cancellation): a Run that has been signalled for
\* cancellation issues no further sink delivery and appends nothing further to
\* the history; and once a later prompt has been submitted to its session,
\* an earlier Run issues and appends nothing any more.
Signalled(k) == task[k].must_cancel \/ task[k].pc = "cancelled"
Silent(k) == Own(k)' = Own(k) /\ OwnSink(k)' = OwnSink(k)
SignalledRunSilent ==
    [][\A k \in Runs : (Submitted(k) /\ Signalled(k)) => Silent(k)]_vars
SilenceAfterCancellation ==
    [][\A k \in Runs :
          (Submitted(k) /\ (Signalled(k) \/ \E b \in RunsOf(task[k].sid) : k < b))
              => Silent(k)]_vars

\* C16 (no interleaved turns): in every session's history each assistant
\* message directly follows the user message of the same prompt, and the
\* messages of one Run are never separated by a message of another Run.
NoInterleavedTurns ==
    \A s \in SessionIds :
        LET h == conversation_history[s]
        IN  /\ \A i \in 1..Len(h) :
                  h[i].role = "assistant" =>
                      i > 1 /\ h[i - 1].role = "user" /\ h[i - 1].run = h[i].run
            /\ \A i \in 1..Len(h), j \in 1..Len(h), l \in 1..Len(h) :
                  (i < j /\ j < l /\ h[i].run = h[l].run) => h[j].run = h[i].run

\* C17 (session isolation): every step of prompt(s), of cancel(s), or of a Run
\* or prompt() call of session s leaves, for every other session, its
\* history, its Run reference, its Runs (none is cancelled) and their calls,
\* and what was delivered to the sink under its id unchanged.
StepOf(s) ==
    \/ \E p \in PromptInputs : prompt(s, p)
    \/ cancel(s)
    \/ \E k \in RunsOf(s) :
          \/ prompt_return(k) \/ task_cancelled(k) \/ handle_prompt_start(k)
          \/ chat_opened(k) \/ backend_failed(k) \/ update_delivered(k)
          \/ stream_end(k) \/ notice_delivered(k)
          \/ \E c \in {<<"x">>, <<"y">>} : stream_chunk(k, c)
Untouched(t) ==
    /\ conversation_history'[t] = conversation_history[t]
    /\ pending_prompt'[t] = pending_prompt[t]
    /\ sink'[t] = sink[t]
    /\ \A k \in RunsOf(t) : task'[k] = task[k] /\ call'[k] = call[k]
SessionIsolation ==
    [][\A s \in SessionIds : (\A t \in SessionIds \ {s} : Untouched(t)) \/ ~StepOf(s)]_vars

\* Two sessions, each with a turn in its history: on one a streaming Run was
\* cancelled by cancel() and its prompt() returned 'cancelled', while the Run
\* of the other is still referenced, unsignalled and streaming.
SessionIsolationWitness ==
    \E s \in SessionIds, t \in SessionIds :
        /\ s # t
        /\ \E k \in RunsOf(s) : /\ Returned(k) /\ call[k].stop_reason = "cancelled"
                                 /\ ~call[k].overtaken /\ Streamed(k) = <<"x">>
        /\ \E k \in RunsOf(t) : /\ Active(k) /\ pending_prompt[t] = k
                                 /\ Streamed(k) = <<"x">>
                                 /\ Len(conversation_history[t]) = 1

\* C18 (every prompt resolves, the session returns to idle): under fair
\* scheduling and finite streams every prompt() call that was made eventually
\* returns; and whenever all prompt() calls made on a session have returned,
\* the session references no Run and none of its Runs is unfinished.
AllReturned(s) == \A k \in RunsOf(s) : Returned(k)
EveryPromptResolves ==
    /\ \A k \in Runs : (call[k].pc = "awaiting") ~> Returned(k)
    /\ [](\A s \in SessionIds :
             AllReturned(s) =>
                 pending_prompt[s] = None /\ \A k \in RunsOf(s) : ~TaskLive(k))

\* Three prompts on one session have all returned: one superseded
\* ('cancelled'), one after a backend failure, one after a completed stream.
EveryPromptResolvesWitness ==
    \E s \in SessionIds :
        /\ Cardinality(RunsOf(s)) = 3 /\ AllReturned(s)
        /\ \E k \in RunsOf(s) : call[k].stop_reason = "cancelled" /\ call[k].overtaken
        /\ \E k \in RunsOf(s) : task[k].failed
        /\ \E k \in RunsOf(s) : ~task[k].failed /\ Len(Own(k)) = 2

\* The extraction result as C19 describes it: the contents of the text blocks
\* concatenated in order and trimmed at the two ends; for each image block in
\* order its bytes, passed through when already decoded, decoded when the
\* data is base64 text, skipped when that text cannot be decoded; blocks of
\* any other type contribute nothing.
Encoded(data) == data \in {"ok", "bad"}
ClaimedBlockText(b) ==
    IF b.type = "text" /\ b.has_text THEN b.text ELSE <<>>
ClaimedBlockImages(b) ==
    IF b.type # "image" \/ b.data = "" THEN <<>>
    ELSE IF ~Encoded(b.data) THEN <<b.data>>
    ELSE IF B64Valid(b.data) THEN <<b64decode(b.data)>>
    ELSE <<>>
RECURSIVE ClaimedText(_)
ClaimedText(blocks) ==
    IF blocks = <<>> THEN <<>>
    ELSE ClaimedBlockText(Head(blocks)) \o ClaimedText(Tail(blocks))
RECURSIVE ClaimedImages(_)
ClaimedImages(blocks) ==
    IF blocks = <<>> THEN <<>>
    ELSE ClaimedBlockImages(Head(blocks)) \o ClaimedImages(Tail(blocks))
Claimed(k) ==
    [text |-> strip(ClaimedText(task[k].prompt)), images |-> ClaimedImages(task[k].prompt)]

\* C19 (extraction result): for every sequence of prompt blocks, what
\* handle_prompt has extracted once its first step ran is the result C19
\* describes: nothing is appended when that result is ("", []), and otherwise
\* the user message appended holds exactly that text and those images.
ExtractionResult ==
    \A k \in Runs : task[k].started =>
        IF Claimed(k).text = <<>> /\ Claimed(k).images = <<>>
        THEN Own(k) = <<>>
        ELSE Own(k) # <<>> /\ Own(k)[1] = UserMessage(k, Claimed(k))

\* C20 (the Run reference tracks the live Run): a session's pending_prompt is
\* None only if none of its Run tasks is unfinished; and the reference to the
\* Run the latest prompt() of a session started is not cleared by the cleanup
\* of another prompt() call: while that Run is unfinished the session
\* references it.
RunReferenceTracksLive ==
    \A s \in SessionIds :
        /\ pending_prompt[s] = None => \A k \in RunsOf(s) : ~TaskLive(k)
        /\ \A k \in RunsOf(s) :
              (TaskLive(k) /\ \A j \in RunsOf(s) : j <= k) => pending_prompt[s] = k

====
